---------------------------- MODULE Spec2Model ----------------------------
(***************************************************************************)
(* Model of vectordb_bench/backend/clients/memorydb/memorydb.py: the       *)
(* MemoryDB client (constructor, make_index, init scope, _post_insert,     *)
(* wait_until), the threaded bulk insert (split_list_into_parts,           *)
(* insert_embeddings, insert_embedding_batch) and search_embedding.        *)
(*                                                                         *)
(* Four specifications share the module's variables; each one drives the   *)
(* variables of its own part and leaves the others at their idle values:   *)
(*   SpecSplit   split_list_into_parts as a pure function                  *)
(*   SpecInsert  insert_embeddings with its worker threads                 *)
(*   Spec        constructor / init scope / _post_insert / wait_until      *)
(*   SpecSearch  search_embedding                                          *)
(***************************************************************************)
EXTENDS Integers, Sequences, FiniteSets, TLC

VARIABLES
    \* ---- split_list_into_parts (SpecSplit)
    lst,            \* the list handed to split_list_into_parts
    num_parts,      \* its num_parts argument
    result,         \* the list of slices it returned
    split_pc        \* "idle" | "call" | "returned"

VARIABLES
    \* ---- configuration shared by the client's methods
    cmd,                    \* db_config["cmd"]: TRUE = cluster mode disabled
    \* ---- insert_embeddings and its worker threads (SpecInsert)
    embeddings,             \* input list of vectors
    metadata,               \* input list of integer identifiers
    ingestion_thread_count, \* self.ingestion_thread_count
    insert_batch_size,      \* self.insert_batch_size
    embedding_parts,        \* split of embeddings
    metadata_parts,         \* split of metadata
    main_pc,                \* position of insert_embeddings
    started,                \* number of threads started so far
    wpc,                    \* position of each worker thread
    wnext,                  \* per worker: how many slice items enumerate() has yielded
    wi,                     \* per worker: the loop variable i (Unbound before the first item)
    command_stack,          \* per pipeline: queued, unflushed commands
    pipe_connection,        \* per pipeline: the connection it holds while executing
    pools,                  \* per connection pool: free and checked-out connections
    store,                  \* per endpoint: the hashes stored there
    result_queue,           \* the queue.Queue of per-worker counts
    result_len,             \* accumulator of insert_embeddings
    ret,                    \* value returned by insert_embeddings
    failed,                 \* per worker: an exception was raised in it (history)
    reported,               \* per worker: the values it put on result_queue (history)
    flushed_log             \* per worker: the commands its completed flushes sent, in order (history)

VARIABLES
    \* ---- constructor, init() scope, _post_insert, wait_until (Spec)
    nreplicas,          \* number of replica nodes the deployment has
    drop_old,           \* the constructor's drop_old local
    pc,                 \* position of the driving thread
    waiting,            \* position inside wait_until: "eval" | "sleep" | "returned"
    cur,                \* the node wait_until is polling (0 = primary, r = replica r)
    replica_clients,    \* the list get_client(replicas=True) returned
    rc_idx,             \* index of the for loop over replica_clients
    handles,            \* per connection handle: "unopened" | "open" | "closed"
    conn_pool,          \* self.conn_pool: "unset" | "None" | "ConnectionPool"
    index_exists,       \* the store has the index
    m_left,             \* per node: how many more polls will find the predicate false
    ctor_calls,         \* constructor calls so far
    post_calls,         \* _post_insert calls so far
    never_true,         \* nodes whose predicate never becomes true (a hung or permanently busy node)
    \* ---- history
    flushed,            \* the current constructor call issued FLUSHALL
    m0,                 \* per node: m_left when the current operation started polling
    evals,              \* per node: predicate evaluations in the current operation
    sleeps,             \* per node: sleeps in the current operation
    passed,             \* nodes whose wait_until returned in the current operation
    create_cmds,        \* create-index commands issued so far
    mk_log              \* FLUSHALL and make_index events, in order

VARIABLES
    \* ---- search_embedding (SpecSearch)
    index_docs,         \* the hashes the index holds
    threshold,          \* T of the caller's filter "metadata >= T"
    filters,            \* filters["metadata"] as characters, <<>> when no filter is given
    k_arg,              \* the k argument: requested result count
    no_content,         \* self.no_content
    ef_runtime_str,     \* self.ef_runtime_str, set by init()
    query_obj,          \* the Query handed to the store
    res_docs,           \* res.docs as the store returned them
    search_result,      \* the list search_embedding returned
    search_pc           \* "idle" | "call" | "returned" | "raised"

splitVars == <<lst, num_parts, result, split_pc>>

searchVars == <<index_docs, threshold, filters, k_arg, no_content, ef_runtime_str,
                query_obj, res_docs, search_result, search_pc>>

lifeVars == <<nreplicas, drop_old, pc, waiting, cur, replica_clients, rc_idx, handles,
              conn_pool, index_exists, m_left, ctor_calls, post_calls, never_true,
              flushed, m0, evals, sleeps, passed, create_cmds, mk_log>>

insVars == <<embeddings, metadata, ingestion_thread_count, insert_batch_size,
             embedding_parts, metadata_parts, main_pc, started, wpc, wnext, wi,
             command_stack, pipe_connection, pools, store, result_queue,
             result_len, ret, failed, reported, flushed_log>>

vars == <<splitVars, cmd, insVars, lifeVars, searchVars>>

\* what each part's actions leave alone
notSplit == <<cmd, insVars, lifeVars, searchVars>>

notInsert == <<splitVars, cmd, lifeVars, searchVars>>

notLife == <<splitVars, cmd, insVars, searchVars>>

notSearch == <<splitVars, cmd, insVars, lifeVars>>

insInputs == <<embeddings, metadata, ingestion_thread_count, insert_batch_size>>

insParts == <<embedding_parts, metadata_parts>>

(***************************************************************************)
(* Bounds                                                                  *)
(***************************************************************************)
MaxSplitLen == 6        \* longest list given to split_list_into_parts
MaxSplitParts == 4      \* largest num_parts given to split_list_into_parts
MaxRecords == 5         \* most records handed to one insert_embeddings call
MaxThreads == 3         \* largest ingestion_thread_count
MaxBatch == 2           \* largest insert_batch_size
MaxReplicas == 2        \* most replica nodes in the deployment
MaxPolls == 2           \* most polls that find a node's predicate still false
MaxCtorCalls == 2       \* constructor calls against one store
MaxPostCalls == 2       \* _post_insert calls inside one init() scope
MaxStored == 11         \* most records in the index when it is searched
MaxThreshold == 11      \* largest T of a filter "metadata >= T"
MaxK == 2               \* largest result count k

(***************************************************************************)
(* Generic helpers                                                         *)
(***************************************************************************)
Min(a, b) == IF a < b THEN a ELSE b

Max(a, b) == IF a < b THEN b ELSE a

RECURSIVE SumLens(_)
SumLens(ss) == IF ss = <<>> THEN 0 ELSE Len(Head(ss)) + SumLens(Tail(ss))

RECURSIVE Flatten(_)
Flatten(ss) == IF ss = <<>> THEN <<>> ELSE Head(ss) \o Flatten(Tail(ss))

\* All sequences over S of length 0..n
SeqsUpTo(S, n) == UNION {[1..k -> S] : k \in 0..n}

\* Python slice l[a:b] for 0 <= a <= b: 0-based, end exclusive, clipped to len(l)
PySliceInclusive(l, a, b) == SubSeq(l, a + 1, Min(b + 1, Len(l)))

PySlice(l, a, b) == SubSeq(l, a + 1, Min(b, Len(l)))

(***************************************************************************)
(* split_list_into_parts                                                   *)
(***************************************************************************)
\* sizes = [base_size + 1 if i < remainder else base_size for i in range(num_parts)]
\* (i is 0-based in the source, k = i + 1 here)
SplitSizesOffByOne(n, parts) ==
    [k \in 1..parts |-> IF (k - 1) <= n % parts THEN (n \div parts) + 1 ELSE n \div parts]

SplitSizes(n, parts) ==
    [k \in 1..parts |-> IF (k - 1) < n % parts THEN (n \div parts) + 1 ELSE n \div parts]

\* for size in sizes: result.append(lst[index:index + size]); index += size
RECURSIVE SplitLoop(_, _, _, _, _)
SplitLoop(l, sizes, k, index, acc) ==
    IF k > Len(sizes) THEN acc
    ELSE SplitLoop(l, sizes, k + 1, index + sizes[k],
                   Append(acc, PySlice(l, index, index + sizes[k])))

split_list_into_parts(l, parts) ==
    SplitLoop(l, SplitSizes(Len(l), parts), 1, 0, <<>>)

(***************************************************************************)
(* Inputs of split_list_into_parts are drawn in SplitInit; SplitCall       *)
(* applies the function                                                    *)
(***************************************************************************)
SplitIdle ==
    /\ lst = <<>>
    /\ num_parts = 1
    /\ result = <<>>
    /\ split_pc = "idle"

SplitInit ==
    /\ lst \in SeqsUpTo({"a", "b"}, MaxSplitLen)
    /\ num_parts \in 1..MaxSplitParts
    /\ result = <<>>
    /\ split_pc = "call"

SplitCall ==
    /\ split_pc = "call"
    /\ result' = split_list_into_parts(lst, num_parts)
    /\ split_pc' = "returned"
    /\ UNCHANGED <<lst, num_parts, notSplit>>

(***************************************************************************)
(* Record encoding (insert_embedding_batch, lines 197-202)                 *)
(***************************************************************************)
DigitChars == <<"0", "1", "2", "3", "4", "5", "6", "7", "8", "9">>

\* str(n) for n >= 0, as a sequence of characters
RECURSIVE str(_)
str(n) == IF n < 10 THEN <<DigitChars[n + 1]>>
          ELSE Append(str(n \div 10), DigitChars[(n % 10) + 1])

\* np.array(embedding).astype(np.float32).tobytes(): the packed float32 image
tobytes(embedding) == <<"float32", embedding>>

\* pipe.hset(metadata[i], mapping={"id": str(metadata[i]), "metadata": metadata[i],
\*                                 "vector": embedding.tobytes()})
HsetCommand(embedding, meta) ==
    [key |-> meta, id |-> str(meta), metadata |-> meta, vector |-> tobytes(embedding)]

\* HSET on the store: the hash under the command's key gets the command's fields
ApplyHset(hashes, c) == {h \in hashes : h.key # c.key} \cup {c}

RECURSIVE ApplyAll(_, _)
ApplyAll(hashes, cmds) ==
    IF cmds = <<>> THEN hashes ELSE ApplyAll(ApplyHset(hashes, Head(cmds)), Tail(cmds))

(***************************************************************************)
(* Connection pools (insert_embeddings line 242, get_client_pool)          *)
(***************************************************************************)
Workers == 1..MaxThreads

Unbound == 0 - 1        \* marks a Python local that was never assigned (enumerate() yields i >= 0)

NoConnection == <<>>    \* Pipeline.connection is None

SharedPool == 0         \* self.conn_pool, when it is a ConnectionPool

PoolIds == {SharedPool} \cup Workers

\* get_client_pool(): None when cluster mode is enabled, a ConnectionPool to
\* db_config host/port otherwise
get_client_pool(c) == IF ~c THEN "None" ELSE "ConnectionPool"

\* conn = redis.Redis(connection_pool=self.conn_pool): with a pool the client
\* borrows from it; with None the client builds a private pool of its own
ClientPool(w) == IF get_client_pool(cmd) = "None" THEN w ELSE SharedPool

\* the endpoint a pool connects to: the shared pool is built from db_config;
\* a private pool is built from redis.Redis() defaults
PoolEndpoint(p) == IF p = SharedPool THEN "db_config_host" ELSE "localhost"

Endpoints == {"db_config_host", "localhost"}

\* with conn.pipeline(transaction=False) as pipe: one pipeline per worker call
WorkerPipeShared(w) == 1

WorkerPipe(w) == w

\* ConnectionPool.get_connection: reuse the most recently released connection,
\* else make a new one
PoolHasFree(p) == pools[p].available # <<>>

PoolPick(p) ==
    IF PoolHasFree(p) THEN pools[p].available[Len(pools[p].available)]
    ELSE <<p, pools[p].created + 1>>

PoolAfterGet(p) ==
    IF PoolHasFree(p)
    THEN [pools[p] EXCEPT !.available = SubSeq(@, 1, Len(@) - 1),
                          !.in_use = @ \cup {PoolPick(p)}]
    ELSE [pools[p] EXCEPT !.created = @ + 1,
                          !.in_use = @ \cup {PoolPick(p)}]

\* ConnectionPool.release
PoolAfterRelease(p, c) ==
    IF c \in pools[p].in_use
    THEN [pools[p] EXCEPT !.in_use = @ \ {c}, !.available = Append(@, c)]
    ELSE pools[p]

(***************************************************************************)
(* insert_embeddings: the calling thread                                   *)
(***************************************************************************)
\* the two shapes of input identifiers: all distinct, or the last one
\* repeating the first
MetadataLists(n) ==
    {[k \in 1..n |-> k], [k \in 1..n |-> IF k = n THEN 1 ELSE k]}

\* line 196: the loop variable i of a worker is not bound before
\* enumerate() yields its first item
LoopVarBeforeZero(w) == 0

LoopVarBefore(w) == Unbound

InsertIdle ==
    /\ embeddings = <<>>
    /\ metadata = <<>>
    /\ ingestion_thread_count = 1
    /\ insert_batch_size = 1
    /\ embedding_parts = <<>>
    /\ metadata_parts = <<>>
    /\ main_pc = "idle"
    /\ started = 0
    /\ wpc = [w \in Workers |-> "unstarted"]
    /\ wnext = [w \in Workers |-> 0]
    /\ wi = [w \in Workers |-> LoopVarBefore(w)]
    /\ command_stack = [w \in Workers |-> <<>>]
    /\ pipe_connection = [w \in Workers |-> NoConnection]
    /\ pools = [p \in PoolIds |-> [available |-> <<>>, in_use |-> {}, created |-> 0]]
    /\ store = [e \in Endpoints |-> {}]
    /\ result_queue = <<>>
    /\ result_len = 0
    /\ ret = "none"
    /\ failed = [w \in Workers |-> FALSE]
    /\ reported = [w \in Workers |-> <<>>]
    /\ flushed_log = [w \in Workers |-> <<>>]

InsertInit ==
    /\ \E n \in 0..MaxRecords :
          /\ metadata \in MetadataLists(n)
          /\ embeddings = [k \in 1..n |-> <<10 + k>>]
    /\ ingestion_thread_count \in 1..MaxThreads
    /\ insert_batch_size \in 1..MaxBatch
    /\ embedding_parts = <<>>
    /\ metadata_parts = <<>>
    /\ main_pc = "call"
    /\ started = 0
    /\ wpc = [w \in Workers |-> "unstarted"]
    /\ wnext = [w \in Workers |-> 0]
    /\ wi = [w \in Workers |-> LoopVarBefore(w)]
    /\ command_stack = [w \in Workers |-> <<>>]
    /\ pipe_connection = [w \in Workers |-> NoConnection]
    /\ pools = [p \in PoolIds |-> [available |-> <<>>, in_use |-> {}, created |-> 0]]
    /\ store = [e \in Endpoints |-> {}]
    /\ result_queue = <<>>
    /\ result_len = 0
    /\ ret = "none"
    /\ failed = [w \in Workers |-> FALSE]
    /\ reported = [w \in Workers |-> <<>>]
    /\ flushed_log = [w \in Workers |-> <<>>]

\* lines 234-240: result_len = 0, the queue, and the two splits
InsertCall ==
    /\ main_pc = "call"
    /\ result_len' = 0
    /\ result_queue' = <<>>
    /\ embedding_parts' = split_list_into_parts(embeddings, ingestion_thread_count)
    /\ metadata_parts' = split_list_into_parts(metadata, ingestion_thread_count)
    /\ main_pc' = "spawn"
    /\ UNCHANGED <<notInsert, flushed_log, insInputs,
                   started, wpc, wnext, wi, command_stack, pipe_connection, pools,
                   store, ret, failed, reported>>

\* where a worker stands once the for loop has consumed `done` items of a
\* slice of `len` items and no flush is due
AfterIteration(done, len) == IF done < len THEN "loop" ELSE "execute_final"

\* lines 241-245: one iteration of the spawning loop (thread.start())
Spawn ==
    /\ main_pc = "spawn"
    /\ started < ingestion_thread_count
    /\ LET w == started + 1 IN
          /\ wpc' = [wpc EXCEPT ![w] = AfterIteration(0, Len(embedding_parts[w]))]
          /\ started' = w
          /\ main_pc' = IF w = ingestion_thread_count THEN "join" ELSE "spawn"
    /\ UNCHANGED <<notInsert, flushed_log, insInputs, insParts, wnext, wi, command_stack,
                   pipe_connection, pools, store, result_queue, result_len, ret,
                   failed, reported>>

\* lines 246-247: for thread in threads: thread.join()
AllJoinedNoWait == TRUE

AllJoined == \A w \in 1..ingestion_thread_count : wpc[w] = "done"

\* lines 246-247: every thread has been joined
Join ==
    /\ main_pc = "join"
    /\ AllJoined
    /\ main_pc' = "drain"
    /\ UNCHANGED <<notInsert, flushed_log, insInputs, insParts, started, wpc, wnext, wi,
                   command_stack, pipe_connection, pools, store, result_queue,
                   result_len, ret, failed, reported>>

\* lines 248-249: one iteration of the draining loop
Drain ==
    /\ main_pc = "drain"
    /\ result_queue # <<>>
    /\ result_len' = result_len + Head(result_queue)
    /\ result_queue' = Tail(result_queue)
    /\ UNCHANGED <<notInsert, flushed_log, insInputs, insParts, main_pc, started, wpc, wnext, wi,
                   command_stack, pipe_connection, pools, store, ret, failed,
                   reported>>

\* line 253: return result_len, None
InsertReturn ==
    /\ main_pc = "drain"
    /\ result_queue = <<>>
    /\ ret' = [count |-> result_len, error |-> "None"]
    /\ main_pc' = "returned"
    /\ UNCHANGED <<notInsert, flushed_log, insInputs, insParts, started, wpc, wnext, wi,
                   command_stack, pipe_connection, pools, store, result_queue,
                   result_len, failed, reported>>

(***************************************************************************)
(* insert_embedding_batch: one worker thread                               *)
(***************************************************************************)
\* line 208-209: result_len = i + 1; result_queue.put(result_len)
ReportOnSuccess(i) == i + 1

\* line 212: result_queue.put(0)
ReportOnErrorSliceLen(slice) == Len(slice)

ReportOnError(slice) == 0

\* where a worker goes when a pipe.execute() returns
AfterExecute(w) ==
    IF wpc[w] \in {"execute", "inflight"}
    THEN AfterIteration(wnext[w], Len(embedding_parts[w]))
    ELSE "result_len"

\* Pipeline.reset(): clear the stack and give the connection back to its pool
PoolsAfterReset(pipe) ==
    LET c == pipe_connection[pipe] IN
    IF c = NoConnection THEN pools
    ELSE [pools EXCEPT ![c[1]] = PoolAfterRelease(c[1], c)]

\* line 204: if (i + 1) % self.insert_batch_size == 0
FlushDueLate(i, batch) == (i + 1) % (batch + 1) = 0

FlushDue(i, batch) == (i + 1) % batch = 0

\* lines 196-204: one iteration of the for loop, up to the batch test
Hset(w) ==
    /\ wpc[w] = "loop"
    /\ LET i == wnext[w]
           pipe == WorkerPipe(w)
       IN /\ command_stack' = [command_stack EXCEPT ![pipe] =
                 Append(@, HsetCommand(embedding_parts[w][i + 1], metadata_parts[w][i + 1]))]
          /\ wi' = [wi EXCEPT ![w] = i]
          /\ wnext' = [wnext EXCEPT ![w] = i + 1]
          /\ wpc' = [wpc EXCEPT ![w] =
                IF FlushDue(i, insert_batch_size) THEN "execute"
                ELSE AfterIteration(i + 1, Len(embedding_parts[w]))]
    /\ UNCHANGED <<notInsert, flushed_log, insInputs, insParts, main_pc, started, pipe_connection,
                   pools, store, result_queue, result_len, ret, failed, reported>>

\* lines 205/207: pipe.execute() on an empty command stack returns at once
ExecuteEmpty(w) ==
    /\ wpc[w] \in {"execute", "execute_final"}
    /\ command_stack[WorkerPipe(w)] = <<>>
    /\ wpc' = [wpc EXCEPT ![w] = AfterExecute(w)]
    /\ UNCHANGED <<notInsert, flushed_log, insInputs, insParts, main_pc, started, wnext, wi,
                   command_stack, pipe_connection, pools, store, result_queue,
                   result_len, ret, failed, reported>>

\* lines 205/207: pipe.execute() takes a connection (the pipeline's own, else
\* one from the client's pool) and sends the queued commands
ExecuteBegin(w) ==
    /\ wpc[w] \in {"execute", "execute_final"}
    /\ LET pipe == WorkerPipe(w)
           p == ClientPool(w)
       IN /\ command_stack[pipe] # <<>>
          /\ IF pipe_connection[pipe] # NoConnection
             THEN UNCHANGED <<pipe_connection, pools>>
             ELSE /\ pipe_connection' = [pipe_connection EXCEPT ![pipe] = PoolPick(p)]
                  /\ pools' = [pools EXCEPT ![p] = PoolAfterGet(p)]
    /\ wpc' = [wpc EXCEPT ![w] = IF @ = "execute" THEN "inflight" ELSE "inflight_final"]
    /\ UNCHANGED <<notInsert, flushed_log, insInputs, insParts, main_pc, started, wnext, wi,
                   command_stack, store, result_queue, result_len, ret, failed,
                   reported>>

\* lines 205/207: the replies arrive; every queued command has been applied
ExecuteEnd(w) ==
    /\ wpc[w] \in {"inflight", "inflight_final"}
    /\ LET pipe == WorkerPipe(w)
           e == PoolEndpoint(ClientPool(w))
       IN /\ store' = [store EXCEPT ![e] = ApplyAll(@, command_stack[pipe])]
          /\ flushed_log' = [flushed_log EXCEPT ![w] = @ \o command_stack[pipe]]
          /\ command_stack' = [command_stack EXCEPT ![pipe] = <<>>]
          /\ pools' = PoolsAfterReset(pipe)
          /\ pipe_connection' = [pipe_connection EXCEPT ![pipe] = NoConnection]
    /\ wpc' = [wpc EXCEPT ![w] = AfterExecute(w)]
    /\ UNCHANGED <<notInsert, insInputs, insParts, main_pc, started, wnext, wi,
                   result_queue, result_len, ret, failed, reported>>

\* lines 205/207 -> 210: pipe.execute() raises (connection or command error)
\* after the store applied only part of the batch
ExecuteFail(w) ==
    /\ wpc[w] \in {"inflight", "inflight_final"}
    /\ LET pipe == WorkerPipe(w)
           e == PoolEndpoint(ClientPool(w))
       IN /\ \E k \in 0..Max(0, Len(command_stack[pipe]) - 1) :
                store' = [store EXCEPT ![e] =
                             ApplyAll(@, SubSeq(command_stack[pipe], 1, k))]
          /\ command_stack' = [command_stack EXCEPT ![pipe] = <<>>]
          /\ pools' = PoolsAfterReset(pipe)
          /\ pipe_connection' = [pipe_connection EXCEPT ![pipe] = NoConnection]
    /\ failed' = [failed EXCEPT ![w] = TRUE]
    /\ wpc' = [wpc EXCEPT ![w] = "except"]
    /\ UNCHANGED <<notInsert, flushed_log, insInputs, insParts, main_pc, started, wnext, wi,
                   result_queue, result_len, ret, reported>>

\* line 208 with an empty slice: the loop never bound i, so i + 1 raises
\* UnboundLocalError
ResultLenUnbound(w) ==
    /\ wpc[w] = "result_len"
    /\ wi[w] = Unbound
    /\ failed' = [failed EXCEPT ![w] = TRUE]
    /\ wpc' = [wpc EXCEPT ![w] = "except"]
    /\ UNCHANGED <<notInsert, flushed_log, insInputs, insParts, main_pc, started, wnext, wi,
                   command_stack, pipe_connection, pools, store, result_queue,
                   result_len, ret, reported>>

\* lines 208-209: result_len = i + 1; result_queue.put(result_len)
Report(w) ==
    /\ wpc[w] = "result_len"
    /\ wi[w] # Unbound
    /\ result_queue' = Append(result_queue, ReportOnSuccess(wi[w]))
    /\ reported' = [reported EXCEPT ![w] = Append(@, ReportOnSuccess(wi[w]))]
    /\ wpc' = [wpc EXCEPT ![w] = "done"]
    /\ UNCHANGED <<notInsert, flushed_log, insInputs, insParts, main_pc, started, wnext, wi,
                   command_stack, pipe_connection, pools, store, result_len, ret,
                   failed>>

\* lines 210-212: except Exception: print(e); result_queue.put(0)
Except(w) ==
    /\ wpc[w] = "except"
    /\ result_queue' = Append(result_queue, ReportOnError(embedding_parts[w]))
    /\ reported' = [reported EXCEPT ![w] = Append(@, ReportOnError(embedding_parts[w]))]
    /\ wpc' = [wpc EXCEPT ![w] = "done"]
    /\ UNCHANGED <<notInsert, flushed_log, insInputs, insParts, main_pc, started, wnext, wi,
                   command_stack, pipe_connection, pools, store, result_len, ret,
                   failed>>

(***************************************************************************)
(* Connections and nodes of the constructor, init() and _post_insert       *)
(***************************************************************************)
Primary == 0

Nodes == 0..MaxReplicas

\* a connection handle: who opened it, what it is, and for which replica
Handle(owner, kind, r) == <<owner, kind, r>>

Handles ==
    {Handle(o, "primary", 0) : o \in {"ctor", "post"}}
    \cup {Handle(o, "replica", r) : o \in {"ctor", "post"}, r \in 1..MaxReplicas}
    \cup {Handle("init", "pool", 0), Handle("init", "conn", 0)}

OwnedBy(o) == {h \in Handles : h[1] = o}

\* get_client(replicas=True), lines 122-133: one connection per replica node
get_client_replicas_none(n) == <<>>

get_client_replicas(n) == [r \in 1..n |-> r]

\* the polls each node will still answer "false" to once an asynchronous
\* FLUSHALL or a background indexing run has started
BusyChoices == {f \in [Nodes -> 0..MaxPolls] : \A n \in Nodes : n > nreplicas => f[n] = 0}

NoCounts == [n \in Nodes |-> 0]

\* wait_for_empty_db / wait_for_no_activity on a node, lines 275-281
condition_always(n) == TRUE

condition(n) == m_left[n] = 0 /\ n \notin never_true

\* the history counters of a node that is polled forever stop counting here
PollCap == MaxPolls + 2

CountPoll(n, c) == IF n \in never_true THEN Min(c + 1, PollCap) ELSE c + 1

\* line 272-273: after time.sleep(interval) the loop tests the condition again
AfterSleepFallThrough == "returned"

AfterSleep == "eval"

\* make_index, lines 72-75: what conn.ft(INDEX_NAME).info() can do
ProbeOutcomes(exists) == IF exists THEN {"ok", "error"} ELSE {"absent", "error"}

\* make_index, line 75: every exception of the probe enters the create branch
MustCreateAlways(outcome) == TRUE

MustCreateOnlyAbsent(outcome) == outcome = "absent"

MustCreate(outcome) == outcome # "ok"

LifeIdle ==
    /\ never_true = {}
    /\ nreplicas = 0
    /\ drop_old = FALSE
    /\ pc = "idle"
    /\ waiting = "returned"
    /\ cur = Primary
    /\ replica_clients = <<>>
    /\ rc_idx = 0
    /\ handles = [h \in Handles |-> "unopened"]
    /\ conn_pool = "unset"
    /\ index_exists = FALSE
    /\ m_left = NoCounts
    /\ ctor_calls = 0
    /\ post_calls = 0
    /\ flushed = FALSE
    /\ m0 = NoCounts
    /\ evals = NoCounts
    /\ sleeps = NoCounts
    /\ passed = <<>>
    /\ create_cmds = 0
    /\ mk_log = <<>>

LifeStart ==
    /\ nreplicas \in 0..MaxReplicas
    /\ drop_old = FALSE
    /\ pc = "start"
    /\ waiting = "returned"
    /\ cur = Primary
    /\ replica_clients = <<>>
    /\ rc_idx = 0
    /\ handles = [h \in Handles |-> "unopened"]
    /\ conn_pool = "unset"
    /\ index_exists \in BOOLEAN
    /\ m_left = NoCounts
    /\ ctor_calls = 0
    /\ post_calls = 0
    /\ flushed = FALSE
    /\ m0 = NoCounts
    /\ evals = NoCounts
    /\ sleeps = NoCounts
    /\ passed = <<>>
    /\ create_cmds = 0
    /\ mk_log = <<>>

\* every node's predicate becomes true after finitely many polls
LifeInit ==
    /\ LifeStart
    /\ never_true = {}

\* some nodes may be hung: their predicate never becomes true
WaitInit ==
    /\ LifeStart
    /\ never_true \in SUBSET (0..nreplicas)

(***************************************************************************)
(* wait_until, lines 269-273                                               *)
(***************************************************************************)
\* line 272: one evaluation of condition(*args)
WaitEval ==
    /\ pc \in {"ctor_wait_primary", "ctor_wait_replica",
               "post_wait_primary", "post_wait_replica"}
    /\ waiting = "eval"
    /\ evals' = [evals EXCEPT ![cur] = CountPoll(cur, @)]
    /\ IF condition(cur)
       THEN /\ waiting' = "returned"
            /\ UNCHANGED m_left
       ELSE /\ waiting' = "sleep"
            /\ m_left' = [m_left EXCEPT ![cur] = Max(@ - 1, 0)]
    /\ UNCHANGED <<notLife, never_true, nreplicas, drop_old, pc, cur, replica_clients, rc_idx,
                   handles, conn_pool, index_exists, ctor_calls, post_calls, flushed,
                   m0, sleeps, passed, create_cmds, mk_log>>

\* line 273: time.sleep(interval), then back to the loop test
WaitSleep ==
    /\ pc \in {"ctor_wait_primary", "ctor_wait_replica",
               "post_wait_primary", "post_wait_replica"}
    /\ waiting = "sleep"
    /\ sleeps' = [sleeps EXCEPT ![cur] = CountPoll(cur, @)]
    /\ waiting' = AfterSleep
    /\ UNCHANGED <<notLife, never_true, nreplicas, drop_old, pc, cur, replica_clients, rc_idx,
                   handles, conn_pool, index_exists, m_left, ctor_calls, post_calls,
                   flushed, m0, evals, passed, create_cmds, mk_log>>

(***************************************************************************)
(* __init__, lines 21-69                                                   *)
(***************************************************************************)
\* lines 30-45: conn = self.get_client(primary=True); INFO server; if drop_old
CtorCall(d) ==
    /\ pc \in {"start", "ctor_done"}
    /\ ctor_calls < MaxCtorCalls
    /\ ctor_calls' = ctor_calls + 1
    /\ drop_old' = d
    /\ handles' = [h \in Handles |->
                     IF h = Handle("ctor", "primary", 0) THEN "open"
                     ELSE IF h \in OwnedBy("ctor") THEN "unopened"
                     ELSE handles[h]]
    /\ flushed' = FALSE
    /\ m0' = NoCounts
    /\ evals' = NoCounts
    /\ sleeps' = NoCounts
    /\ passed' = <<>>
    /\ replica_clients' = <<>>
    /\ rc_idx' = 0
    /\ cur' = Primary
    /\ pc' = IF d THEN "ctor_drop_probe" ELSE "ctor_make_index"
    /\ UNCHANGED <<notLife, never_true, nreplicas, waiting, conn_pool, index_exists, m_left,
                   post_calls, create_cmds, mk_log>>

\* lines 46-53: the logging probe; ResponseError (no index) clears drop_old
CtorDropProbe ==
    /\ pc = "ctor_drop_probe"
    /\ drop_old' = IF index_exists THEN drop_old ELSE FALSE
    /\ pc' = "ctor_flushall"
    /\ UNCHANGED <<notLife, never_true, nreplicas, waiting, cur, replica_clients, rc_idx,
                   handles, conn_pool, index_exists, m_left, ctor_calls,
                   post_calls, flushed, m0, evals, sleeps, passed, create_cmds,
                   mk_log>>

\* lines 55-59: conn.flushall() starts the asynchronous flush on every node;
\* then wait_until(self.wait_for_empty_db, 3, "", conn) is entered
CtorFlushall ==
    /\ pc = "ctor_flushall"
    /\ \E busy \in BusyChoices :
          /\ m_left' = busy
          /\ m0' = busy
    /\ index_exists' \in {index_exists, FALSE}
    /\ flushed' = TRUE
    /\ mk_log' = Append(mk_log, [ev |-> "flushall", probe |-> "none", created |-> FALSE])
    /\ cur' = Primary
    /\ waiting' = "eval"
    /\ pc' = "ctor_wait_primary"
    /\ UNCHANGED <<notLife, never_true, nreplicas, drop_old, replica_clients, rc_idx, handles,
                   conn_pool, ctor_calls, post_calls, evals, sleeps, passed,
                   create_cmds>>

\* lines 59-63: wait_until on the primary returned; in cluster mode open the
\* replica connections and enter wait_until on the first one
CtorAfterPrimaryWait ==
    /\ pc = "ctor_wait_primary"
    /\ waiting = "returned"
    /\ passed' = Append(passed, cur)
    /\ IF ~cmd /\ get_client_replicas(nreplicas) # <<>>
       THEN /\ replica_clients' = get_client_replicas(nreplicas)
            /\ handles' = [h \in Handles |->
                  IF \E k \in DOMAIN get_client_replicas(nreplicas) :
                        h = Handle("ctor", "replica", get_client_replicas(nreplicas)[k])
                  THEN "open" ELSE handles[h]]
            /\ rc_idx' = 1
            /\ cur' = get_client_replicas(nreplicas)[1]
            /\ waiting' = "eval"
            /\ pc' = "ctor_wait_replica"
       ELSE /\ pc' = "ctor_make_index"
            /\ UNCHANGED <<replica_clients, handles, rc_idx, cur, waiting>>
    /\ UNCHANGED <<notLife, never_true, nreplicas, drop_old, conn_pool, index_exists, m_left,
                   ctor_calls, post_calls, flushed, m0, evals, sleeps,
                   create_cmds, mk_log>>

\* lines 63-65: wait_until on a replica returned; rc.close(); next replica
CtorReplicaDone ==
    /\ pc = "ctor_wait_replica"
    /\ waiting = "returned"
    /\ passed' = Append(passed, cur)
    /\ handles' = [handles EXCEPT ![Handle("ctor", "replica", cur)] = "closed"]
    /\ IF rc_idx < Len(replica_clients)
       THEN /\ rc_idx' = rc_idx + 1
            /\ cur' = replica_clients[rc_idx + 1]
            /\ waiting' = "eval"
            /\ UNCHANGED pc
       ELSE /\ pc' = "ctor_make_index"
            /\ UNCHANGED <<rc_idx, cur, waiting>>
    /\ UNCHANGED <<notLife, never_true, nreplicas, drop_old, replica_clients, conn_pool,
                   index_exists, m_left, ctor_calls, post_calls, flushed, m0,
                   evals, sleeps, create_cmds, mk_log>>

\* line 67 = make_index, lines 71-101: probe the index; on any exception
\* build the schema and issue create_index, which the store rejects when the
\* index is already there
CtorMakeIndex(outcome) ==
    /\ pc = "ctor_make_index"
    /\ outcome \in ProbeOutcomes(index_exists)
    /\ mk_log' = Append(mk_log, [ev |-> "make_index", probe |-> outcome,
                                created |-> MustCreate(outcome)])
    /\ IF MustCreate(outcome)
       THEN /\ create_cmds' = create_cmds + 1
            /\ index_exists' = TRUE
            /\ pc' = IF index_exists THEN "ctor_raised" ELSE "ctor_close"
       ELSE /\ pc' = "ctor_close"
            /\ UNCHANGED <<create_cmds, index_exists>>
    /\ UNCHANGED <<notLife, never_true, nreplicas, drop_old, waiting, cur, replica_clients,
                   rc_idx, handles, conn_pool, m_left, ctor_calls, post_calls,
                   flushed, m0, evals, sleeps, passed>>

\* lines 68-69: conn.close()
CtorClose ==
    /\ pc = "ctor_close"
    /\ handles' = [handles EXCEPT ![Handle("ctor", "primary", 0)] = "closed"]
    /\ pc' = "ctor_done"
    /\ UNCHANGED <<notLife, never_true, nreplicas, drop_old, waiting, cur, replica_clients,
                   rc_idx, conn_pool, index_exists, m_left, ctor_calls,
                   post_calls, flushed, m0, evals, sleeps, passed, create_cmds,
                   mk_log>>

(***************************************************************************)
(* init(), lines 159-178                                                   *)
(***************************************************************************)
\* lines 168-175: the pool, the search connection, yield
InitEnter ==
    /\ pc = "ctor_done"
    /\ conn_pool' = get_client_pool(cmd)
    /\ handles' = [handles EXCEPT
          ![Handle("init", "pool", 0)] =
              IF get_client_pool(cmd) = "None" THEN @ ELSE "open",
          ![Handle("init", "conn", 0)] = "open"]
    /\ post_calls' = 0
    /\ pc' = "in_scope"
    /\ UNCHANGED <<notLife, never_true, nreplicas, drop_old, waiting, cur, replica_clients,
                   rc_idx, index_exists, m_left, ctor_calls, flushed, m0, evals,
                   sleeps, passed, create_cmds, mk_log>>

\* lines 176-178: self.conn_pool.close() raises AttributeError on None,
\* otherwise the pool and the connection are closed and conn_pool is cleared
InitExit ==
    /\ pc \in {"in_scope", "post_returned"}
    /\ IF conn_pool = "None"
       THEN /\ pc' = "init_exit_raised"
            /\ UNCHANGED <<handles, conn_pool>>
       ELSE /\ handles' = [handles EXCEPT ![Handle("init", "pool", 0)] = "closed",
                                          ![Handle("init", "conn", 0)] = "closed"]
            /\ conn_pool' = "None"
            /\ pc' = "init_exited"
    /\ UNCHANGED <<notLife, never_true, nreplicas, drop_old, waiting, cur, replica_clients,
                   rc_idx, index_exists, m_left, ctor_calls, post_calls, flushed,
                   m0, evals, sleeps, passed, create_cmds, mk_log>>

(***************************************************************************)
(* optimize() = _post_insert, lines 255-267                                *)
(***************************************************************************)
\* lines 257-260: client = self.get_client(primary=True); the store is still
\* indexing in the background; wait_until(wait_for_no_activity) is entered
PostInsertCall ==
    /\ pc \in {"in_scope", "post_returned"}
    /\ post_calls < MaxPostCalls
    /\ post_calls' = post_calls + 1
    /\ handles' = [h \in Handles |->
                     IF h = Handle("post", "primary", 0) THEN "open"
                     ELSE IF h \in OwnedBy("post") THEN "unopened"
                     ELSE handles[h]]
    /\ \E busy \in BusyChoices :
          /\ m_left' = busy
          /\ m0' = busy
    /\ evals' = NoCounts
    /\ sleeps' = NoCounts
    /\ passed' = <<>>
    /\ replica_clients' = <<>>
    /\ rc_idx' = 0
    /\ cur' = Primary
    /\ waiting' = "eval"
    /\ pc' = "post_wait_primary"
    /\ UNCHANGED <<notLife, never_true, nreplicas, drop_old, conn_pool, index_exists, ctor_calls,
                   flushed, create_cmds, mk_log>>

\* lines 260-265: wait_until on the primary returned; in cluster mode open
\* the replica connections and enter wait_until on the first one
PostAfterPrimaryWait ==
    /\ pc = "post_wait_primary"
    /\ waiting = "returned"
    /\ passed' = Append(passed, cur)
    /\ IF ~cmd /\ get_client_replicas(nreplicas) # <<>>
       THEN /\ replica_clients' = get_client_replicas(nreplicas)
            /\ handles' = [h \in Handles |->
                  IF \E k \in DOMAIN get_client_replicas(nreplicas) :
                        h = Handle("post", "replica", get_client_replicas(nreplicas)[k])
                  THEN "open" ELSE handles[h]]
            /\ rc_idx' = 1
            /\ cur' = get_client_replicas(nreplicas)[1]
            /\ waiting' = "eval"
            /\ pc' = "post_wait_replica"
       ELSE /\ pc' = "post_returned"
            /\ UNCHANGED <<replica_clients, handles, rc_idx, cur, waiting>>
    /\ UNCHANGED <<notLife, never_true, nreplicas, drop_old, conn_pool, index_exists, m_left,
                   ctor_calls, post_calls, flushed, m0, evals, sleeps,
                   create_cmds, mk_log>>

\* lines 265-267: wait_until on a replica returned; rc.close(); next replica
PostReplicaDone ==
    /\ pc = "post_wait_replica"
    /\ waiting = "returned"
    /\ passed' = Append(passed, cur)
    /\ handles' = [handles EXCEPT ![Handle("post", "replica", cur)] = "closed"]
    /\ IF rc_idx < Len(replica_clients)
       THEN /\ rc_idx' = rc_idx + 1
            /\ cur' = replica_clients[rc_idx + 1]
            /\ waiting' = "eval"
            /\ UNCHANGED pc
       ELSE /\ pc' = "post_returned"
            /\ UNCHANGED <<rc_idx, cur, waiting>>
    /\ UNCHANGED <<notLife, never_true, nreplicas, drop_old, replica_clients, conn_pool,
                   index_exists, m_left, ctor_calls, post_calls, flushed, m0,
                   evals, sleeps, create_cmds, mk_log>>

(***************************************************************************)
(* search_embedding, lines 283-307                                         *)
(***************************************************************************)
Digits == {DigitChars[d] : d \in 1..10}

DigitValue(c) == (CHOOSE d \in 1..10 : DigitChars[d] = c) - 1

\* the text is a non-negative decimal number
IsNumber(chars) == chars # <<>> /\ \A j \in DOMAIN chars : chars[j] \in Digits

\* int(text)
RECURSIVE int(_)
int(chars) ==
    IF Len(chars) = 1 THEN DigitValue(chars[1])
    ELSE 10 * int(SubSeq(chars, 1, Len(chars) - 1)) + DigitValue(chars[Len(chars)])

\* the harness's filter value: ">=" followed by the decimal threshold
FilterValue(t) == <<">", "=">> \o str(t)

\* line 299: filters.get("metadata")[2:]
metadata_value_3(f) == SubSeq(f, 4, Len(f))

metadata_value(f) == SubSeq(f, 3, Len(f))

\* lines 294-305: the query object
\*   "*=>[KNN k @vector $vec ef]" or "@metadata:[v +inf]=>[KNN k @vector $vec ef]",
\*   .paging(0, k), then .no_content() or .return_fields("id")
BuildQuery(f, kk, ef, nc) ==
    [prefilter |-> IF f # <<>> THEN <<"@metadata:[">> \o metadata_value(f) \o <<" +inf]">>
                   ELSE <<"*">>,
     knn |-> kk,
     ef_runtime |-> ef,
     offset |-> 0,
     num |-> kk,
     no_content |-> nc,
     return_fields |-> IF nc THEN <<>> ELSE <<"id">>]

\* the store's reading of the pre-filter clause: "*" or a numeric range
\* with a decimal lower bound
PrefilterLow(q) == SubSeq(q.prefilter, 2, Len(q.prefilter) - 1)

QueryIsValid(q) ==
    \/ q.prefilter = <<"*">>
    \/ /\ Len(q.prefilter) >= 3
       /\ q.prefilter[1] = "@metadata:["
       /\ q.prefilter[Len(q.prefilter)] = " +inf]"
       /\ IsNumber(PrefilterLow(q))

\* the hashes the KNN step ranges over
Candidates(q, docs) ==
    IF q.prefilter = <<"*">> THEN docs
    ELSE {h \in docs : h.metadata >= int(PrefilterLow(q))}

\* what the store may answer: at most q.num distinct candidates, in the
\* order of its own ranking; a document carries its key as id
Document(h) == [id |-> str(h.key)]

Rankings(q, docs) ==
    {r \in SeqsUpTo(Candidates(q, docs), q.num) :
        \A a, b \in DOMAIN r : a # b => r[a] # r[b]}

\* line 307: [int(doc["id"]) for doc in res.docs]
DecodeIdsReversed(ds) == [j \in DOMAIN ds |-> int(ds[Len(ds) + 1 - j].id)]

DecodeIds(ds) == [j \in DOMAIN ds |-> int(ds[j].id)]

SearchIdle ==
    /\ index_docs = {}
    /\ threshold = 0
    /\ filters = <<>>
    /\ k_arg = 1
    /\ no_content = FALSE
    /\ ef_runtime_str = ""
    /\ query_obj = <<>>
    /\ res_docs = <<>>
    /\ search_result = <<>>
    /\ search_pc = "idle"

\* the index holds what insert_embedding_batch wrote for identifiers 0..n-1
SearchInit ==
    /\ \E n \in 0..MaxStored : index_docs = {HsetCommand(<<10 + m>>, m) : m \in 0..(n - 1)}
    /\ threshold \in 0..MaxThreshold
    /\ filters \in {<<>>, FilterValue(threshold)}
    /\ k_arg \in 1..MaxK
    /\ no_content \in BOOLEAN
    /\ ef_runtime_str \in {"", "EF_RUNTIME 10"}
    /\ query_obj = <<>>
    /\ res_docs = <<>>
    /\ search_result = <<>>
    /\ search_pc = "call"

\* lines 291-307: build the query, search, decode; search() raises when the
\* store rejects the query text
SearchEmbedding ==
    /\ search_pc = "call"
    /\ LET q == BuildQuery(filters, k_arg, ef_runtime_str, no_content) IN
          /\ query_obj' = q
          /\ IF QueryIsValid(q)
             THEN /\ \E r \in Rankings(q, index_docs) :
                        /\ res_docs' = [j \in DOMAIN r |-> Document(r[j])]
                        /\ search_result' = DecodeIds([j \in DOMAIN r |-> Document(r[j])])
                  /\ search_pc' = "returned"
             ELSE /\ search_pc' = "raised"
                  /\ UNCHANGED <<res_docs, search_result>>
    /\ UNCHANGED <<notSearch, index_docs, threshold, filters, k_arg, no_content,
                   ef_runtime_str>>

(***************************************************************************)
(* Specifications                                                          *)
(***************************************************************************)
InitSplit ==
    /\ SearchIdle
    /\ SplitInit
    /\ cmd = TRUE
    /\ InsertIdle
    /\ LifeIdle

NextSplit == SplitCall

SpecSplit == InitSplit /\ [][NextSplit]_vars

InitInsert ==
    /\ SearchIdle
    /\ SplitIdle
    /\ cmd \in BOOLEAN
    /\ InsertInit
    /\ LifeIdle

NextInsert ==
    \/ InsertCall
    \/ Spawn
    \/ Join
    \/ Drain
    \/ InsertReturn
    \/ \E w \in Workers : Hset(w)
    \/ \E w \in Workers : ExecuteEmpty(w)
    \/ \E w \in Workers : ExecuteBegin(w)
    \/ \E w \in Workers : ExecuteEnd(w)
    \/ \E w \in Workers : ExecuteFail(w)
    \/ \E w \in Workers : ResultLenUnbound(w)
    \/ \E w \in Workers : Report(w)
    \/ \E w \in Workers : Except(w)

SpecInsert == InitInsert /\ [][NextInsert]_vars

Init ==
    /\ SearchIdle
    /\ SplitIdle
    /\ cmd \in BOOLEAN
    /\ InsertIdle
    /\ LifeInit

Next ==
    \/ \E d \in BOOLEAN : CtorCall(d)
    \/ CtorDropProbe
    \/ CtorFlushall
    \/ CtorAfterPrimaryWait
    \/ CtorReplicaDone
    \/ \E outcome \in {"ok", "absent", "error"} : CtorMakeIndex(outcome)
    \/ CtorClose
    \/ InitEnter
    \/ InitExit
    \/ PostInsertCall
    \/ PostAfterPrimaryWait
    \/ PostReplicaDone
    \/ WaitEval
    \/ WaitSleep

Spec == Init /\ [][Next]_vars

InitWait ==
    /\ SearchIdle
    /\ SplitIdle
    /\ cmd \in BOOLEAN
    /\ InsertIdle
    /\ WaitInit

\* the driving thread keeps running: an evaluation of the predicate returns
\* and a sleep ends
NextWait ==
    \/ \E d \in BOOLEAN : CtorCall(d)
    \/ CtorDropProbe
    \/ CtorFlushall
    \/ CtorAfterPrimaryWait
    \/ CtorReplicaDone
    \/ \E outcome \in {"ok", "absent", "error"} : CtorMakeIndex(outcome)
    \/ CtorClose
    \/ WaitEval
    \/ WaitSleep

SpecWait == InitWait /\ [][NextWait]_vars /\ WF_vars(WaitEval) /\ WF_vars(WaitSleep)

InitSearch ==
    /\ SearchInit
    /\ SplitIdle
    /\ cmd = TRUE
    /\ InsertIdle
    /\ LifeIdle

NextSearch == SearchEmbedding

SpecSearch == InitSearch /\ [][NextSearch]_vars

(***************************************************************************)
(* Claims                                                                  *)
(***************************************************************************)
\* C1: for every worker_count >= 1 and every list of length n >= 0,
\* split_list_into_parts returns exactly worker_count slices whose sizes sum
\* to n and differ pairwise by at most 1.
C1_SplitSizes ==
    split_pc = "returned" =>
        /\ Len(result) = num_parts
        /\ SumLens(result) = Len(lst)
        /\ \A a, b \in 1..Len(result) :
              Len(result[a]) - Len(result[b]) <= 1

\* C1 witness: a split with a non-zero remainder and a non-zero base size
C1_Witness ==
    /\ split_pc = "returned"
    /\ num_parts >= 3
    /\ Len(lst) > num_parts
    /\ Len(lst) % num_parts # 0
    /\ Len(result) = num_parts

\* the workers of the current insert_embeddings call
Started == 1..ingestion_thread_count

RECURSIVE SumOver(_, _)
SumOver(f, S) ==
    IF S = {} THEN 0
    ELSE LET x == CHOOSE y \in S : TRUE IN f[x] + SumOver(f, S \ {x})

\* C2: for every insert_embeddings call with n records and worker_count >= 1
\* the returned total is <= n, and it equals n if and only if no worker
\* raised an error while processing its slice.
C2_TotalEqualsIffNoFailure ==
    main_pc = "returned" =>
        /\ ret.count <= Len(embeddings)
        /\ (ret.count = Len(embeddings)) <=> (\A w \in Started : ~failed[w])

\* C3: when any subset of the workers raises, each failing worker puts 0 on
\* the queue, the error stays inside the worker, and insert_embeddings
\* returns (sum of the other workers' slice lengths, None).
C3_FailuresSwallowed ==
    /\ \A w \in Started : (failed[w] /\ wpc[w] = "done") => reported[w] = <<0>>
    /\ main_pc = "returned" =>
          /\ ret.error = "None"
          /\ ret.count = SumOver([w \in Started |-> Len(embedding_parts[w])],
                                 {w \in Started : ~failed[w]})

\* C3 witness: the call returned after one worker with records failed and
\* another worker with records succeeded
C3_Witness ==
    /\ main_pc = "returned"
    /\ \E w \in Started : failed[w] /\ Len(embedding_parts[w]) > 0
    /\ \E w \in Started : ~failed[w] /\ Len(embedding_parts[w]) > 0
    /\ ret.count > 0

\* a worker has sent its queued commands and is waiting for the replies
InFlight(w) == wpc[w] \in {"inflight", "inflight_final"}

\* C8: under every interleaving, a connection borrowed from the pool by one
\* worker is used only by that worker until it is released: no two workers
\* have commands in flight on the same connection at the same time.
C8_ExclusiveConnection ==
    /\ \A w1, w2 \in Workers :
          (w1 # w2 /\ InFlight(w1) /\ InFlight(w2)) =>
              pipe_connection[WorkerPipe(w1)] # pipe_connection[WorkerPipe(w2)]
    /\ \A w \in Workers :
          InFlight(w) =>
              LET c == pipe_connection[WorkerPipe(w)] IN
              /\ c # NoConnection
              /\ c \in pools[c[1]].in_use
              /\ \A k \in DOMAIN pools[c[1]].available : pools[c[1]].available[k] # c

\* C8 witness: two workers have commands in flight at once on connections of
\* the shared pool while a third connection is back in the pool
C8_Witness ==
    /\ cmd
    /\ \E w1, w2 \in Workers :
          /\ w1 # w2 /\ InFlight(w1) /\ InFlight(w2)
          /\ pipe_connection[WorkerPipe(w1)][1] = SharedPool
          /\ pipe_connection[WorkerPipe(w2)][1] = SharedPool
    /\ pools[SharedPool].available # <<>>

InPassed(n) == \E k \in DOMAIN passed : passed[k] = n

InWaitUntil == pc \in {"ctor_wait_primary", "ctor_wait_replica",
                       "post_wait_primary", "post_wait_replica"}

\* wait_until has returned for node n in the current operation
WaitReturned(n) == InPassed(n) \/ (InWaitUntil /\ cur = n /\ waiting = "returned")

\* C4: wait_until never returns before the predicate has evaluated to true;
\* for a predicate that is false on its first m evaluations and true
\* afterwards it performs exactly m+1 evaluations and m sleeps, then returns.
C4_WaitUntilEvaluations ==
    \A n \in Nodes :
        /\ evals[n] <= m0[n] + 1
        /\ sleeps[n] <= evals[n]
        /\ WaitReturned(n) =>
              /\ evals[n] = m0[n] + 1
              /\ sleeps[n] = m0[n]
              /\ condition(n)

\* C4 witness: wait_until returned on a node whose predicate was false on
\* its first two (or more) evaluations
C4_Witness ==
    \E n \in Nodes : WaitReturned(n) /\ m0[n] >= 2 /\ evals[n] = m0[n] + 1

\* the nodes a convergence check has to cover, in order
Expected == <<Primary>> \o (IF ~cmd THEN [r \in 1..nreplicas |-> r] ELSE <<>>)

IsPrefix(a, b) == Len(a) <= Len(b) /\ SubSeq(b, 1, Len(a)) = a

\* C5: in cluster mode the post-reset check (constructor) and the
\* post-insert check (_post_insert) run to completion on the primary first
\* and then on every replica one after another, and the operation does not
\* get past the checks until the predicate has been true on all of them;
\* with cluster mode disabled only the single node is checked.
C5_BarrierOrder ==
    /\ IsPrefix(passed, Expected)
    /\ \A k \in DOMAIN passed : condition(passed[k])
    /\ \A n \in Nodes :
          evals[n] > 0 =>
              \E k \in DOMAIN Expected : Expected[k] = n /\ Len(passed) >= k - 1
    /\ (flushed /\ pc \in {"ctor_make_index", "ctor_close", "ctor_raised", "ctor_done"})
          => passed = Expected
    /\ pc = "post_returned" => passed = Expected

\* C5 witness: in cluster mode with every replica present, _post_insert
\* returned after a constructor that reset the store, and some replica was
\* still busy when first polled
C5_Witness ==
    /\ ~cmd
    /\ nreplicas >= 2
    /\ flushed
    /\ pc = "post_returned"
    /\ Len(passed) = nreplicas + 1
    /\ \E n \in 1..nreplicas : m0[n] > 0

RECURSIVE CountCreated(_)
CountCreated(log) ==
    IF log = <<>> THEN 0
    ELSE (IF Head(log).created THEN 1 ELSE 0) + CountCreated(Tail(log))

\* two make_index calls one after the other, no FLUSHALL in between
ConsecutiveCalls(j) ==
    /\ j \in DOMAIN mk_log
    /\ j + 1 \in DOMAIN mk_log
    /\ mk_log[j].ev = "make_index"
    /\ mk_log[j + 1].ev = "make_index"

\* C6: calling make_index twice against the same store issues exactly one
\* create-index command: the second call's probe never reports the index
\* absent, and a second call that finds the index through the probe is a
\* no-op, so that a first call on a store without the index and the second
\* call together issue one command.
C6_MakeIndexIdempotent ==
    /\ create_cmds = CountCreated(mk_log)
    /\ \A j \in DOMAIN mk_log :
          ConsecutiveCalls(j) =>
              /\ mk_log[j + 1].probe # "absent"
              /\ mk_log[j + 1].probe = "ok" => ~mk_log[j + 1].created
              /\ (mk_log[j].probe = "absent" /\ mk_log[j + 1].probe = "ok")
                    => CountCreated(SubSeq(mk_log, j, j + 1)) = 1

\* C6 witness: the first call found no index and created it, the second
\* call found it, and one create-index command was issued in all
C6_Witness ==
    /\ Len(mk_log) = 2
    /\ ConsecutiveCalls(1)
    /\ mk_log[1].probe = "absent"
    /\ mk_log[2].probe = "ok"
    /\ create_cmds = 1
    /\ pc = "ctor_done"

AllClosed(o) == \A h \in OwnedBy(o) : handles[h] # "open"

\* C7: every connection a component opened (the constructor's primary and
\* replica connections, the init() scope's pool and search connection,
\* _post_insert's primary and replica connections) is closed by that
\* component by the time its operation or scope ends, in both modes.
C7_ConnectionsClosed ==
    /\ pc = "ctor_done" => AllClosed("ctor")
    /\ pc = "post_returned" => AllClosed("post")
    /\ pc \in {"init_exited", "init_exit_raised"} => AllClosed("init")

InScope == pc \in {"in_scope", "post_wait_primary", "post_wait_replica", "post_returned"}

\* C9: get_client_pool returns a reusable connection pool in cluster
\* (Sharded) mode and no shared pool is used in Standalone mode; so the
\* init() scope opens its pool and later closes it in Sharded mode.
C9_PoolInShardedMode ==
    /\ InScope =>
          IF ~cmd
          THEN conn_pool = "ConnectionPool" /\ handles[Handle("init", "pool", 0)] = "open"
          ELSE conn_pool = "None"
    /\ (~cmd /\ pc \in {"init_exited", "init_exit_raised"})
          => handles[Handle("init", "pool", 0)] = "closed"

\* C10: for a search with filter "metadata >= T" the query restricts the
\* candidates to metadata in [T, +inf) before the KNN step, so every
\* identifier returned belongs to a stored record whose metadata is >= T;
\* without a filter the KNN ranges over all records.
C10_FilteredSearch ==
    search_pc = "returned" =>
        IF filters # <<>>
        THEN /\ Candidates(query_obj, index_docs) = {h \in index_docs : h.metadata >= threshold}
             /\ \A j \in DOMAIN search_result :
                   /\ \E h \in index_docs : int(h.id) = search_result[j]
                   /\ \A h \in index_docs :
                         int(h.id) = search_result[j] => h.metadata >= threshold
        ELSE Candidates(query_obj, index_docs) = index_docs

\* C10 witness: a filtered search with a two-digit threshold returned
\* identifiers while records below the threshold were stored
C10_Witness ==
    /\ search_pc = "returned"
    /\ filters # <<>>
    /\ threshold >= 10
    /\ search_result # <<>>
    /\ \E h \in index_docs : h.metadata < threshold

\* C11: search_embedding with result count k returns at most k integer
\* identifiers, in exactly the order the store returned them (one per
\* returned document, none dropped, duplicated or re-ranked), both when
\* no field content is requested and when only the id field is requested.
C11_OrderPreserved ==
    search_pc = "returned" =>
        /\ query_obj.offset = 0
        /\ query_obj.num = k_arg
        /\ query_obj.no_content = no_content
        /\ query_obj.return_fields = (IF no_content THEN <<>> ELSE <<"id">>)
        /\ Len(search_result) <= k_arg
        /\ Len(search_result) = Len(res_docs)
        /\ \A j \in DOMAIN res_docs :
              /\ search_result[j] \in Nat
              /\ res_docs[j].id = str(search_result[j])
              /\ \E h \in index_docs : h.key = search_result[j]

\* C11 witness: with payload suppressed the store ranked a two-digit
\* identifier before a smaller one and the result keeps that order
C11_Witness ==
    /\ search_pc = "returned"
    /\ no_content
    /\ Len(search_result) = 2
    /\ search_result[1] >= 10
    /\ search_result[2] < search_result[1]

\* the driving thread is inside wait_until on a node whose predicate never
\* becomes true
HungWait == InWaitUntil /\ cur \in never_true

\* C12: wait_until has no attempt bound and no timeout: on a node whose
\* predicate never becomes true the call never returns, raises nothing and
\* keeps evaluating and sleeping for ever; on a node whose predicate
\* becomes true and stays true the call eventually returns (the polling
\* loop being scheduled fairly).
C12_NoTimeout ==
    /\ [](\A n \in never_true : ~WaitReturned(n))
    /\ [][HungWait => (HungWait' /\ cur' = cur /\ pc' = pc)]_vars
    /\ [](HungWait => <>(waiting = "sleep"))
    /\ [](HungWait => <>(waiting = "eval"))
    /\ \A n \in Nodes :
          (InWaitUntil /\ cur = n /\ n \notin never_true) ~> WaitReturned(n)

\* C12 witness: the primary's wait returned after polls that found it busy,
\* and the loop on a hung replica has gone round more often than any node
\* that becomes idle needs
C12_Witness ==
    /\ InPassed(Primary)
    /\ m0[Primary] > 0
    /\ HungWait
    /\ evals[cur] > MaxPolls + 1
    /\ sleeps[cur] > MaxPolls + 1

\* the slice lengths a split of n items into the started workers must have
ExpectedSize(w) ==
    (Len(embeddings) \div ingestion_thread_count)
        + (IF w <= Len(embeddings) % ingestion_thread_count THEN 1 ELSE 0)

\* C13: the slices are contiguous and order-preserving: concatenated in
\* slice order they give back the original list, exactly the first
\* (n mod worker_count) slices have one element more than the others, and
\* embeddings and metadata are cut at the same positions, so that item i of
\* a worker's embedding slice and item i of its metadata slice come from
\* the same input position.
C13_ContiguousSlices ==
    main_pc # "call" =>
        /\ Flatten(embedding_parts) = embeddings
        /\ Flatten(metadata_parts) = metadata
        /\ \A w \in Started :
              /\ Len(embedding_parts[w]) = ExpectedSize(w)
              /\ Len(metadata_parts[w]) = Len(embedding_parts[w])
              /\ \A i \in DOMAIN embedding_parts[w] :
                    \E j \in DOMAIN embeddings :
                        /\ j = SumLens(SubSeq(embedding_parts, 1, w - 1)) + i
                        /\ embeddings[j] = embedding_parts[w][i]
                        /\ metadata[j] = metadata_parts[w][i]

\* C13 witness: five records over three workers: two slices of two and one
\* of one
C13_Witness ==
    /\ main_pc = "spawn"
    /\ ingestion_thread_count = 3
    /\ Len(embeddings) = 5
    /\ Len(embedding_parts[1]) = 2
    /\ Len(embedding_parts[2]) = 2
    /\ Len(embedding_parts[3]) = 1

\* the write commands of worker w's slice, in slice order
SliceCommands(w) ==
    [i \in 1..Len(embedding_parts[w]) |->
        HsetCommand(embedding_parts[w][i], metadata_parts[w][i])]

\* C14: within one worker the write commands are queued in slice order and
\* the pipeline is flushed after every insert_batch_size-th record plus one
\* final flush: the queued, unflushed commands never exceed
\* insert_batch_size, what has been flushed followed by what is queued is
\* the slice's commands up to the loop's position, between two records the
\* queue holds the records since the last multiple of insert_batch_size,
\* and when the worker finishes without error every record of its slice has
\* been flushed exactly once.
C14_BatchedFlush ==
    \A w \in 1..started :
        LET queued == command_stack[WorkerPipe(w)] IN
        /\ Len(queued) <= insert_batch_size
        /\ ~failed[w] =>
              flushed_log[w] \o queued = SubSeq(SliceCommands(w), 1, wnext[w])
        /\ wpc[w] = "loop" => Len(queued) = wnext[w] % insert_batch_size
        /\ (wpc[w] \in {"result_len", "done"} /\ ~failed[w]) =>
              /\ queued = <<>>
              /\ flushed_log[w] = SliceCommands(w)

\* C14 witness: a worker finished a slice of three records with batches of two
C14_Witness ==
    /\ wpc[1] = "done"
    /\ ~failed[1]
    /\ insert_batch_size = 2
    /\ Len(flushed_log[1]) = 3

\* the step issues make_index's probe (and, after it, its create-index)
MakeIndexIssued ==
    /\ Len(mk_log') = Len(mk_log) + 1
    /\ mk_log'[Len(mk_log')].ev = "make_index"

InCtorWait == pc \in {"ctor_wait_primary", "ctor_wait_replica"}

\* what C15 asks of every step of the constructor
ResetThenWaitThenIndex ==
    /\ (pc' = "ctor_drop_probe" /\ pc # "ctor_drop_probe") => ~flushed'
    /\ pc = "ctor_drop_probe" => (pc' = "ctor_flushall" /\ ~MakeIndexIssued)
    /\ pc = "ctor_flushall" =>
          /\ pc' = "ctor_wait_primary"
          /\ flushed'
          /\ mk_log'[Len(mk_log')].ev = "flushall"
          /\ passed' = <<>>
    /\ InCtorWait =>
          /\ ~MakeIndexIssued
          /\ m_left[cur] > 0 => (pc' = pc /\ cur' = cur /\ passed' = passed)
    /\ (MakeIndexIssued /\ flushed) =>
          /\ mk_log[Len(mk_log)].ev = "flushall"
          /\ passed = Expected
          /\ \A k \in DOMAIN Expected :
                m_left[Expected[k]] = 0 /\ evals[Expected[k]] >= 1

\* C15: when the constructor is called with drop_old, FLUSHALL is issued
\* first, and make_index's index probe / create-index is never issued before
\* the zero-key-count probe has succeeded on the primary and, in cluster
\* mode, on every replica; while the node being polled still drains its
\* asynchronous flush the constructor stays in wait_until.
C15_ResetBeforeIndex == [][ResetThenWaitThenIndex]_vars

\* C15 witness: in cluster mode a constructor called with drop_old issued
\* make_index after the primary and a replica had both still been draining
C15_Witness ==
    /\ ~cmd
    /\ nreplicas >= 1
    /\ flushed
    /\ pc = "ctor_close"
    /\ m0[Primary] > 0
    /\ m0[1] > 0
    /\ mk_log[Len(mk_log)].ev = "make_index"
    /\ mk_log[Len(mk_log) - 1].ev = "flushall"

RECURSIVE CountFailedProbes(_)
CountFailedProbes(log) ==
    IF log = <<>> THEN 0
    ELSE (IF Head(log).ev = "make_index" /\ Head(log).probe \in {"absent", "error"}
          THEN 1 ELSE 0) + CountFailedProbes(Tail(log))

\* C16: in make_index every failure of the index probe, index-not-found or
\* any other error, leads to one create-index command and a successful
\* probe leads to none, so the create-index commands issued are as many as
\* the failed probes: two calls whose probes both fail for a reason other
\* than absence issue two.
C16_EveryProbeFailureCreates ==
    /\ \A j \in DOMAIN mk_log :
          mk_log[j].ev = "make_index" =>
              /\ mk_log[j].probe \in {"absent", "error"} => mk_log[j].created
              /\ mk_log[j].probe = "ok" => ~mk_log[j].created
    /\ create_cmds = CountFailedProbes(mk_log)
    /\ \A i, j \in DOMAIN mk_log :
          (/\ i < j
           /\ mk_log[i].ev = "make_index" /\ mk_log[i].probe = "error"
           /\ mk_log[j].ev = "make_index" /\ mk_log[j].probe = "error")
              => create_cmds >= 2

\* C16 witness: two constructor calls whose probes both failed for a reason
\* other than absence; two create-index commands were issued and the store
\* rejected the second
C16_Witness ==
    /\ Len(mk_log) = 2
    /\ mk_log[1].ev = "make_index" /\ mk_log[1].probe = "error"
    /\ mk_log[2].ev = "make_index" /\ mk_log[2].probe = "error"
    /\ create_cmds = 2
    /\ pc = "ctor_raised"

RECURSIVE SumSeq(_)
SumSeq(s) == IF s = <<>> THEN 0 ELSE Head(s) + SumSeq(Tail(s))

\* everything the workers have put on result_queue so far
ReportedTotal == SumOver([w \in Workers |-> SumSeq(reported[w])], Workers)

\* C17: every started worker puts exactly one value on result_queue, its
\* slice length or 0; insert_embeddings drains the queue only after all
\* workers have been joined; and under every interleaving what has been
\* drained plus what is still queued is the sum of the reported values, so
\* the returned total is the sum of the ingestion_thread_count reports.
C17_OneReportPerWorker ==
    /\ \A w \in Workers :
          /\ Len(reported[w]) <= 1
          /\ Len(reported[w]) = 1 <=> wpc[w] = "done"
          /\ Len(reported[w]) = 1 => reported[w][1] \in {Len(embedding_parts[w]), 0}
    /\ result_len + SumSeq(result_queue) = ReportedTotal
    /\ main_pc \notin {"drain", "returned"} =>
          /\ result_len = 0
          /\ Len(result_queue) = Cardinality({w \in Workers : wpc[w] = "done"})
    /\ main_pc \in {"drain", "returned"} =>
          /\ \A w \in Workers :
                Len(reported[w]) = (IF w <= ingestion_thread_count THEN 1 ELSE 0)
    /\ main_pc = "returned" =>
          /\ result_queue = <<>>
          /\ ret.count = ReportedTotal

\* C17 witness: three workers reported three different values and the call
\* returned their sum
C17_Witness ==
    /\ main_pc = "returned"
    /\ ingestion_thread_count = 3
    /\ reported[1] = <<2>>
    /\ reported[2] = <<0>>
    /\ reported[3] = <<1>>
    /\ ret.count = 3

DistinctIds == \A i, j \in DOMAIN metadata : metadata[i] = metadata[j] => i = j

\* no pipe.execute() raised (the UnboundLocalError of an empty slice is not
\* a write)
NoWriteFailed == \A w \in Workers : failed[w] => Len(embedding_parts[w]) = 0

\* the hash the store has to hold for input record j
RecordHash(j) ==
    [key |-> metadata[j], id |-> str(metadata[j]), metadata |-> metadata[j],
     vector |-> <<"float32", embeddings[j]>>]

\* C18: when all record identifiers are distinct and no write fails, the
\* content of the configured store after insert_embeddings returns is the
\* same for every interleaving of the workers: exactly one hash per input
\* record, keyed by its identifier and holding that record's id, metadata
\* and vector.
C18_StoreContentDeterministic ==
    (main_pc = "returned" /\ DistinctIds /\ NoWriteFailed) =>
        store["db_config_host"] = {RecordHash(j) : j \in DOMAIN embeddings}

\* the workers of the call whose slice is empty
EmptySliceWorkers == {w \in 1..started : Len(embedding_parts[w]) = 0}

\* an empty-slice worker writes nothing and contributes 0
EmptySlicesContributeZero ==
    \A w \in EmptySliceWorkers :
        /\ flushed_log[w] = <<>>
        /\ command_stack[WorkerPipe(w)] = <<>>
        /\ pipe_connection[WorkerPipe(w)] = NoConnection
        /\ wpc[w] = "done" => reported[w] = <<0>>

FewerRecordsThanWorkers == Len(embeddings) < ingestion_thread_count

FlushedTotal == SumOver([w \in Workers |-> Len(flushed_log[w])], Workers)

\* the store the workers' connections write to
WriteEndpoint == PoolEndpoint(ClientPool(1))

\* the input records whose key the store holds
StoredRecords ==
    {j \in DOMAIN metadata : \E h \in store[WriteEndpoint] : h.key = metadata[j]}

\* a worker failed after at least one successful non-empty flush
FailedAfterFlush(w) == failed[w] /\ flushed_log[w] # <<>>

=============================================================================
